---------------------------- MODULE Spec2Model ----------------------------
(***************************************************************************)
(* A model of the OSINT mind-map editor (src/OSINT-framework.py): the      *)
(* graph model (GraphData), its on-canvas projection (GraphScene), the     *)
(* Shift-click connection gesture, the inspector form, enrichment and the  *)
(* JSON codec.                                                             *)
(*                                                                         *)
(* Python objects have identity.  A NodeData object is an index (an oid)   *)
(* into the heap `nodes`; its NodeItem is created once, by                 *)
(* GraphScene.add_node, and is identified with the same oid.  The two list *)
(* fields of a NodeData carry, beside their value, the identity of the     *)
(* list object (tagsObj, attachmentsObj), and an in-place mutation of a    *)
(* list reaches every NodeData that holds that list object.                *)
(*                                                                         *)
(* Texts the code parses (labels, notes, tags, URLs, the form's fields)    *)
(* are sequences of one-character strings; ids, edge labels, groups and    *)
(* statuses are only compared and are strings.                             *)
(***************************************************************************)
EXTENDS Integers, Sequences, FiniteSets, TLC

VARIABLES
    nodes,        \* the heap of NodeData objects: oid -> NodeData or NoNode
    graph_nodes,  \* MainWindow.graph.nodes: a sequence of oids
    graph_edges,  \* MainWindow.graph.edges: a sequence of EdgeData
    scene_items,  \* the NodeItems in the QGraphicsScene (by oid)
    scene_nodes,  \* GraphScene.nodes: the dict id -> NodeItem
    scene_edges,  \* GraphScene.edges: the list of EdgeItems
    item_pos,     \* NodeItem.pos() of each NodeItem in the scene
    selected,     \* the selected NodeItems (EdgeItems carry their own flag)
    edgeSource,   \* GraphScene._edgeSource
    form,         \* the inspector's widgets
    file,         \* the document export_json wrote last
    world,        \* what the external lookups answer (fixed for a run)
    exported,     \* history: the Graph as it was when `file` was written
    query,        \* the text of searchBox
    hidden,       \* the NodeItems that are not visible (setVisible(False))
    uuids,        \* how many uuid4() values were drawn
    sync,         \* where sync_inspector stands, _syncing, the blocked widgets
    count         \* history: the operations of the session so far, by kind

vars == <<nodes, graph_nodes, graph_edges, scene_items, scene_nodes,
          scene_edges, item_pos, selected, edgeSource, form, file, world, exported,
          query, hidden, uuids, sync, count>>

----------------------------------------------------------------------------
(* Bounds of the model *)

\* NodeData objects alive at once
MaxObjs == 4
\* calls of uuid4() after seeding (add_node_ui)
MaxAdds == 1
\* user operations in one session on the canvas
MaxSteps == 6
\* user operations in one session with the inspector
MaxInspectorSteps == 5
\* user operations in one session with documents
MaxCodecSteps == 5
\* user operations in one session with the search box
MaxSearchSteps == 5
\* user operations in one session in which sync_inspector runs statement by
\* statement
MaxSyncSteps == 4
\* user operations in one session of edits and enrichment without import
MaxWriteBackSteps == 4

\* Python's None where a string is expected, and where a NodeItem is
None == "None"
NoItem == -1
NoNode == [none |-> TRUE]
NoFile == [none |-> TRUE]
NoGraph == [none |-> TRUE]
Oids == 0 .. (MaxObjs - 1)

----------------------------------------------------------------------------
(* Sequences *)

RECURSIVE SelectSeqBy(_, _)
\* [x for x in s if Keep(x)] with Keep given as a set of kept elements
SelectSeqBy(s, keep) ==
    IF s = <<>> THEN <<>>
    ELSE IF Head(s) \in keep THEN <<Head(s)>> \o SelectSeqBy(Tail(s), keep)
         ELSE SelectSeqBy(Tail(s), keep)

Range(s) == { s[i] : i \in 1 .. Len(s) }

\* s without the elements at the indices I
DropAt(s, I) ==
    LET F[k \in 0 .. Len(s)] ==
          IF k = 0 THEN <<>>
          ELSE IF k \in I THEN F[k - 1] ELSE Append(F[k - 1], s[k])
    IN F[Len(s)]

Min(S) == CHOOSE x \in S : \A y \in S : x <= y

----------------------------------------------------------------------------
(* Texts *)

T_Untitled == <<"U","n","t","i","t","l","e","d">>
T_CampaignCore == <<"C","a","m","p","a","i","g","n"," ","C","o","r","e">>
T_Huegelfurt == <<"H","ü","g","e","l","f","u","r","t">>
T_Garin == <<"G","a","r","i","n"," ","W","i","n","d","s","p","i","e","l">>
T_hub == <<"h","u","b">>
T_village == <<"v","i","l","l","a","g","e">>
T_bard == <<"b","a","r","d">>

----------------------------------------------------------------------------
(* Data model: Attachment, NodeData, EdgeData (dataclasses) *)

GROUPS == {"npc", "location", "quest", "item", "faction", "person", "org",
           "domain", "ip", "url", "note"}
FirstGroup == "npc"
Statuses == {"unknown", "confirmed", "suspected", "false"}

Attachment(label, url) == [label |-> label, url |-> url]

\* NodeData(...) with its dataclass defaults; tobj and aobj are the list
\* objects the constructor was handed (or that default_factory made)
NodeData(id, label, group, tags, tobj, status, confidence, atts, aobj, notes, x, y) ==
    [id |-> id, label |-> label, group |-> group, tags |-> tags,
     tagsObj |-> tobj, status |-> status, confidence |-> confidence,
     attachments |-> atts, attachmentsObj |-> aobj, notes |-> notes,
     x |-> x, y |-> y]

EdgeData(source, target, label, style) ==
    [source |-> source, target |-> target, label |-> label, style |-> style]

\* EdgeItem(srcItem, dstItem, style, label_text): a fresh item is not selected
EdgeItem(src, dst, style, label) ==
    [src |-> src, dst |-> dst, style |-> style, label |-> label, sel |-> FALSE]

\* the value of uuid4(): never one that was drawn before
Uuid(k) == <<"u1", "u2", "u3", "u4", "u5", "u6", "u7", "u8">>[k]
SeedUuids == 3

Live(ns) == { o \in Oids : ns[o] # NoNode }

\* the list objects the NodeData objects of heap ns hold
UsedListObjs(ns) ==
    { ns[o].tagsObj : o \in Live(ns) } \cup { ns[o].attachmentsObj : o \in Live(ns) }

\* a list object no NodeData holds: what [] , list(...) or a + b evaluates to
FreshListObjMutant(used) == 0
FreshListObj(used) == Min((0 .. 2 * MaxObjs + 1) \ used)

\* a NodeData object no one refers to: what NodeData(...) evaluates to
FreshOid(ns) == Min(Oids \ Live(ns))

----------------------------------------------------------------------------
(* The inspector form (MainWindow.build_inspector) *)

\* the widgets as constructed: empty QLineEdits, confEdit "50", the combo
\* boxes on their first entry, an empty attachList
InitForm ==
    [name |-> <<>>, group |-> FirstGroup, status |-> "unknown",
     conf |-> <<"5", "0">>, tags |-> <<>>, notes |-> <<>>, rows |-> 0]

Digit(d) == <<"0", "1", "2", "3", "4", "5", "6", "7", "8", "9">>[d + 1]

RECURSIVE NatToText(_)
NatToText(n) ==
    IF n < 10 THEN <<Digit(n)>> ELSE NatToText(n \div 10) \o <<Digit(n % 10)>>

\* str(n) of an int
IntToText(n) == IF n < 0 THEN <<"-">> \o NatToText(0 - n) ELSE NatToText(n)

RECURSIVE Join(_, _)
\* sep.join(list)
Join(list, sep) ==
    IF list = <<>> THEN <<>>
    ELSE IF Len(list) = 1 THEN list[1]
         ELSE list[1] \o sep \o Join(Tail(list), sep)

\* MainWindow.current_node_item: the first NodeItem of scene.selectedItems(),
\* a list whose order Qt leaves open; None when no NodeItem is selected
current_node_item(sel) == IF sel = {} THEN {NoItem} ELSE sel

\* MainWindow.sync_inspector, with `it` the current node item: the widgets
\* after it ran.  findData of a group the combo box has not gives -1, and
\* the box then shows no entry (currentData() is None); setCurrentText of a
\* text a non-editable combo box has not leaves its index alone.
sync_inspector(f, ns, it) ==
    IF it = NoItem THEN f
    ELSE LET nd == ns[it] IN
         [name |-> nd.label,
          group |-> IF nd.group \in GROUPS THEN nd.group ELSE None,
          status |-> IF nd.status \in Statuses THEN nd.status ELSE f.status,
          conf |-> IntToText(nd.confidence),
          tags |-> Join(nd.tags, <<",", " ">>),
          notes |-> nd.notes,
          rows |-> Len(nd.attachments)]

\* what the slot connected to scene.selectionChanged leaves in the form:
\* it runs only when the selection did change
OnSelectionChanged(f, ns, before, after, it) ==
    IF before = after THEN f ELSE sync_inspector(f, ns, it)

----------------------------------------------------------------------------
(* Python text operations *)

Whitespace == {" "}
Digits == {"0", "1", "2", "3", "4", "5", "6", "7", "8", "9"}
Letters == {"a", "b", "c", "d", "e", "f", "g", "h", "i", "j", "k", "l", "m",
            "n", "o", "p", "q", "r", "s", "t", "u", "v", "w", "x", "y", "z",
            "A", "B", "C", "D", "E", "F", "G", "H", "I", "J", "K", "L", "M",
            "N", "O", "P", "Q", "R", "S", "T", "U", "V", "W", "X", "Y", "Z"}

RECURSIVE LStrip(_)
LStrip(t) ==
    IF t # <<>> /\ Head(t) \in Whitespace THEN LStrip(Tail(t)) ELSE t

RECURSIVE RStrip(_)
RStrip(t) ==
    IF t # <<>> /\ t[Len(t)] \in Whitespace
    THEN RStrip(SubSeq(t, 1, Len(t) - 1)) ELSE t

\* str.strip()
Strip(t) == RStrip(LStrip(t))

RECURSIVE SplitOn(_, _, _)
\* str.split(sep) for a one-character sep; cur is the piece being read
SplitOn(t, sep, cur) ==
    IF t = <<>> THEN <<cur>>
    ELSE IF Head(t) = sep THEN <<cur>> \o SplitOn(Tail(t), sep, <<>>)
         ELSE SplitOn(Tail(t), sep, Append(cur, Head(t)))

Split(t, sep) == SplitOn(t, sep, <<>>)

RECURSIVE FromKeys(_, _)
\* list(dict.fromkeys(list)): the first occurrence of each value, in order
FromKeys(list, seen) ==
    IF list = <<>> THEN <<>>
    ELSE IF Head(list) \in seen THEN FromKeys(Tail(list), seen)
         ELSE <<Head(list)>> \o FromKeys(Tail(list), seen \cup {Head(list)})

DigitValue(c) == CHOOSE d \in 0 .. 9 : Digit(d) = c

RECURSIVE DigitsValue(_, _)
DigitsValue(t, acc) ==
    IF t = <<>> THEN acc ELSE DigitsValue(Tail(t), 10 * acc + DigitValue(Head(t)))

\* int(text): surrounding whitespace and one sign are accepted, then digits
\* (the texts of this model hold no underscore); anything else raises
\* ValueError (ok is FALSE)
ParseInt(t) ==
    LET s == Strip(t)
        neg == s # <<>> /\ Head(s) = "-"
        body == IF s # <<>> /\ Head(s) \in {"-", "+"} THEN Tail(s) ELSE s
    IN IF body # <<>> /\ \A i \in 1 .. Len(body) : body[i] \in Digits
       THEN [ok |-> TRUE,
             v |-> IF neg THEN 0 - DigitsValue(body, 0) ELSE DigitsValue(body, 0)]
       ELSE [ok |-> FALSE, v |-> 0]

MaxOf(a, b) == IF a >= b THEN a ELSE b
MinOf(a, b) == IF a <= b THEN a ELSE b

----------------------------------------------------------------------------
(* Construction: MainWindow.__init__ and seed_example *)

SeedNodes ==
    [o \in Oids |->
       CASE o = 0 -> NodeData(Uuid(1), T_CampaignCore, "note", <<T_hub>>, 0,
                              "confirmed", 90, <<>>, 1, <<>>, 0, 0)
         [] o = 1 -> NodeData(Uuid(2), T_Huegelfurt, "location", <<T_village>>, 2,
                              "unknown", 50, <<>>, 3, <<>>, 350, -60)
         [] o = 2 -> NodeData(Uuid(3), T_Garin, "npc", <<T_bard>>, 4,
                              "suspected", 60, <<>>, 5, <<>>, 350, 120)
         [] OTHER -> NoNode]

SeedEdges ==
    << EdgeData(Uuid(1), Uuid(2), "starts in", "solid"),
       EdgeData(Uuid(3), Uuid(2), "lives in", "solid") >>

\* GraphScene.add_node for every node of a list, on an empty scene:
\* self.nodes[nd.id] = item, a later node of the same id replacing an earlier
SceneNodesOf(ns, oids) ==
    LET ids == { ns[oids[i]].id : i \in 1 .. Len(oids) }
        last(id) == CHOOSE i \in 1 .. Len(oids) :
                       /\ ns[oids[i]].id = id
                       /\ \A j \in (i + 1) .. Len(oids) : ns[oids[j]].id # id
    IN [id \in ids |-> oids[last(id)]]

\* GraphScene.add_edge(ed) on the edge list es
scene_add_edge(sn, es, ed) ==
    IF ed.source \notin DOMAIN sn \/ ed.target \notin DOMAIN sn THEN es
    ELSE Append(es, EdgeItem(sn[ed.source], sn[ed.target], ed.style, ed.label))

RECURSIVE SceneAddEdges(_, _, _)
SceneAddEdges(sn, es, eds) ==
    IF eds = <<>> THEN es
    ELSE SceneAddEdges(sn, scene_add_edge(sn, es, Head(eds)), Tail(eds))

\* The external collaborators, as one fixed answer per run: whois_domain
\* (registrar, name_servers; nothing when the lookup fails), dns_records (the
\* record types that resolved, in the order A, MX, TXT), whether the favicon
\* is reachable (urls_for_domain), and the registrable domain tldextract
\* finds in a label
WorldDown ==
    [registrar |-> <<>>, name_servers |-> <<>>, dns |-> <<>>,
     favicon |-> FALSE, domain |-> <<>>]
WorldUp ==
    [registrar |-> <<"R">>, name_servers |-> << <<"n">>, <<"n">> >>,
     dns |-> << [k |-> <<"A">>, vals |-> << <<"1">> >>] >>,
     favicon |-> TRUE, domain |-> <<"b", ".", "i", "o">>]

Worlds == {WorldDown, WorldUp}

\* a world whose WHOIS answer names a registrar with a comma in its name
WorldComma == [WorldUp EXCEPT !.registrar = <<"R", ",", " ", "X">>]

\* the six widgets of the form that sync_inspector writes, in its order
Widgets == <<"name", "group", "status", "conf", "tags", "notes">>

\* sync_inspector is not running: _syncing is False, no widget is blocked.
\* pc is the statement sync_inspector executes next, it the NodeItem it
\* works on, slots whether update_selected_from_ui ran inside it.
SyncIdle ==
    [pc |-> "idle", it |-> NoItem, syncing |-> FALSE, blocked |-> {},
     slots |-> FALSE]

\* MainWindow.__init__ and seed_example, then a session of at most n
\* operations in a world of W
Session(W, n) ==
    /\ nodes = SeedNodes
    /\ graph_nodes = <<0, 1, 2>>
    /\ graph_edges = SeedEdges
    /\ scene_items = {0, 1, 2}
    /\ scene_nodes = SceneNodesOf(SeedNodes, <<0, 1, 2>>)
    /\ scene_edges = SceneAddEdges(SceneNodesOf(SeedNodes, <<0, 1, 2>>), <<>>, SeedEdges)
    /\ item_pos = [o \in {0, 1, 2} |-> <<SeedNodes[o].x, SeedNodes[o].y>>]
    /\ selected = {}
    /\ edgeSource = NoItem
    /\ form = InitForm
    /\ file = NoFile
    /\ world \in W
    /\ exported = NoGraph
    /\ query = <<>>
    /\ hidden = {}
    /\ uuids = 0
    /\ sync = SyncIdle
    /\ count = [steps |-> 0, connects |-> 0, cancels |-> 0, enrichments |-> 0,
                limit |-> n]

\* a session on the canvas, every lookup failing
Init == Session({WorldDown}, MaxSteps)

\* one more operation in the session: Qt hands the next event to a handler
\* when the handler before it has returned
Tick ==
    /\ sync.pc = "idle"
    /\ count.steps < count.limit
    /\ count' = [count EXCEPT !.steps = @ + 1]

\* one more operation, of the kind k the history counts
TickKind(k) ==
    /\ sync.pc = "idle"
    /\ count.steps < count.limit
    /\ count' = [count EXCEPT !.steps = @ + 1, ![k] = @ + 1]

----------------------------------------------------------------------------
(* Selection (QGraphicsItem.ItemIsSelectable) *)

SelEdges(es) == { i \in 1 .. Len(es) : es[i].sel }
ClearEdgeSel(es) == [i \in 1 .. Len(es) |-> [es[i] EXCEPT !.sel = FALSE]]
Selection(sel, es) == <<sel, SelEdges(es)>>

\* A plain click on a NodeItem: NodeItem.mousePressEvent without Shift hands
\* the event to QGraphicsRectItem, which makes the item the only selected one
ClickNode(o) ==
    /\ o \in scene_items
    /\ o \notin hidden
    /\ Tick
    /\ selected' = {o}
    /\ scene_edges' = ClearEdgeSel(scene_edges)
    /\ form' = OnSelectionChanged(form, nodes, Selection(selected, scene_edges),
                                  Selection({o}, scene_edges'), o)
    /\ UNCHANGED <<sync, nodes, graph_nodes, graph_edges, scene_items, scene_nodes,
                   item_pos, edgeSource, file, world, exported, query, hidden, uuids>>

\* A click on an EdgeItem (selectable): it becomes the only selected item
ClickEdge(i) ==
    /\ i \in 1 .. Len(scene_edges)
    /\ Tick
    /\ selected' = {}
    /\ scene_edges' = [ClearEdgeSel(scene_edges) EXCEPT ![i].sel = TRUE]
    /\ UNCHANGED <<sync, nodes, graph_nodes, graph_edges, scene_items, scene_nodes,
                   item_pos, edgeSource, form, file, world, exported, query, hidden, uuids>>

\* A click on the empty canvas clears the selection
ClickBackground ==
    /\ Selection(selected, scene_edges) # <<{}, {}>>
    /\ Tick
    /\ selected' = {}
    /\ scene_edges' = ClearEdgeSel(scene_edges)
    /\ UNCHANGED <<sync, nodes, graph_nodes, graph_edges, scene_items, scene_nodes,
                   item_pos, edgeSource, form, file, world, exported, query, hidden, uuids>>

----------------------------------------------------------------------------
(* Model sync for edges *)

SameTriple(e, source, target, label) ==
    e.source = source /\ e.target = target /\ e.label = label

\* MainWindow._model_add_edge
model_add_edge_NoDedup(ge, ed) == Append(ge, ed)
model_add_edge(ge, ed) ==
    IF \E i \in 1 .. Len(ge) : SameTriple(ge[i], ed.source, ed.target, ed.label)
    THEN ge
    ELSE Append(ge, ed)

\* MainWindow._model_delete_edge, for the set `items` of EdgeItems: every
\* model edge with the (source id, target id, label text) of one of them goes
model_delete_edge(ge, ns, items) ==
    SelectSeqBy(ge, { e \in Range(ge) :
        ~ \E it \in items : SameTriple(e, ns[it.src].id, ns[it.dst].id, it.label) })

\* MainWindow._model_update_edge_label: the first model edge between the
\* item's endpoints takes the text
model_update_edge_label(ge, ns, it, new_text) ==
    LET hits == { i \in 1 .. Len(ge) :
                    ge[i].source = ns[it.src].id /\ ge[i].target = ns[it.dst].id }
    IN IF hits = {} THEN ge
       ELSE [ge EXCEPT ![Min(hits)].label = new_text]

----------------------------------------------------------------------------
(* Handlers of the canvas *)

\* Python keeps an object while something refers to it: graph.nodes, a
\* NodeItem of the scene, or GraphScene._edgeSource
Collect(ns, gn, si, src) ==
    [o \in Oids |-> IF o \in Range(gn) \cup si \cup {src} THEN ns[o] ELSE NoNode]

\* the view's centre in scene coordinates, wherever the user scrolled to
Centers == { <<100, 50>> }

\* MainWindow.add_node_ui
add_node_ui(center) ==
    LET nid == Uuid(SeedUuids + uuids + 1)
        o == FreshOid(nodes)
        tobj == FreshListObj(UsedListObjs(nodes))
        aobj == FreshListObj(UsedListObjs(nodes) \cup {tobj})
        nd == NodeData(nid, T_Untitled, "note", <<>>, tobj, "unknown", 50,
                       <<>>, aobj, <<>>, center[1], center[2])
    IN /\ uuids < MaxAdds
       /\ Tick
       /\ Live(nodes) # Oids
       /\ uuids' = uuids + 1
       /\ nodes' = [nodes EXCEPT ![o] = nd]
       /\ graph_nodes' = Append(graph_nodes, o)
       /\ scene_items' = scene_items \cup {o}
       /\ scene_nodes' = [id \in DOMAIN scene_nodes \cup {nid} |->
                            IF id = nid THEN o ELSE scene_nodes[id]]
       /\ item_pos' = [i \in scene_items \cup {o} |->
                            IF i = o THEN center ELSE item_pos[i]]
       /\ UNCHANGED <<sync, graph_edges, scene_edges, selected, edgeSource, form,
                      file, world, exported, query, hidden>>

\* the same test never succeeding
is_edge_source_Never(node_item, src) == FALSE

\* "node_item is self._edgeSource"
is_edge_source(node_item, src) == node_item = src

\* what QInputDialog.getText returns for the label of an edge
EdgeLabels == {"", "knows"}
LabelInputs == { <<t, TRUE>> : t \in EdgeLabels } \cup { <<"", FALSE>> }

\* GraphScene.edge_click(node_item), reached from NodeItem.mousePressEvent
\* with Shift held; `input` is what the label dialog returns
edge_click(node_item, input) ==
    /\ node_item \in scene_items
    /\ node_item \notin hidden
    /\ IF edgeSource = NoItem
       THEN /\ edgeSource' = node_item
            /\ selected' = selected \cup {node_item}
            /\ \E it \in current_node_item(selected') :
                 form' = OnSelectionChanged(form, nodes, selected, selected', it)
            /\ Tick
            /\ UNCHANGED <<sync, nodes, graph_edges, scene_edges>>
       ELSE IF is_edge_source(node_item, edgeSource)
       THEN /\ edgeSource' = NoItem
            /\ nodes' = Collect(nodes, graph_nodes, scene_items, NoItem)
            /\ TickKind("cancels")
            /\ UNCHANGED <<sync, graph_edges, scene_edges, selected, form>>
       ELSE LET label == IF input[2] THEN input[1] ELSE ""
                ed == EdgeData(nodes[edgeSource].id, nodes[node_item].id,
                               label, "solid")
            IN /\ TickKind("connects")
               /\ graph_edges' = model_add_edge(graph_edges, ed)
               /\ scene_edges' = scene_add_edge(scene_nodes, scene_edges, ed)
               /\ edgeSource' = NoItem
               /\ nodes' = Collect(nodes, graph_nodes, scene_items, NoItem)
               /\ UNCHANGED <<sync, selected, form>>
    /\ UNCHANGED <<sync, graph_nodes, scene_items, scene_nodes, item_pos, file,
                   world, exported, query, hidden, uuids>>

\* EdgeItem.mouseDoubleClickEvent on the i-th EdgeItem; `input` is what the
\* dialog returns.  The base class handler then treats the event as a press,
\* which selects the item.
edge_mouseDoubleClickEvent(i, input) ==
    /\ i \in 1 .. Len(scene_edges)
    /\ Tick
    /\ LET it == scene_edges[i]
           es == IF input[2] THEN [scene_edges EXCEPT ![i].label = input[1]]
                 ELSE scene_edges
       IN /\ graph_edges' =
                IF input[2]
                THEN model_update_edge_label(graph_edges, nodes, it, input[1])
                ELSE graph_edges
          /\ scene_edges' = [ClearEdgeSel(es) EXCEPT ![i].sel = TRUE]
          /\ selected' = {}
    /\ UNCHANGED <<sync, nodes, graph_nodes, scene_items, scene_nodes, item_pos,
                   edgeSource, form, file, world, exported, query, hidden, uuids>>

\* EdgeItem.contextMenuEvent with "Delete Edge" chosen, on the i-th EdgeItem
edge_contextMenuEvent(i) ==
    /\ i \in 1 .. Len(scene_edges)
    /\ Tick
    /\ graph_edges' = model_delete_edge(graph_edges, nodes, {scene_edges[i]})
    /\ scene_edges' = DropAt(scene_edges, {i})
    /\ \E it \in current_node_item(selected) :
         form' = OnSelectionChanged(form, nodes, Selection(selected, scene_edges),
                                    Selection(selected, scene_edges'), it)
    /\ UNCHANGED <<sync, nodes, graph_nodes, scene_items, scene_nodes, item_pos,
                   selected, edgeSource, file, world, exported, query, hidden, uuids>>

\* MainWindow.keyPressEvent for Delete or Backspace with something selected.
\* Removing a selected item from the scene emits selectionChanged, so
\* sync_inspector runs on what is still selected: after the selected edges
\* went (its1 names the node item it then finds), and while the selected
\* nodes go one by one (its2: the one that went last, synced when it was the
\* only one left).
keyPressEvent_Delete(its1, its2) ==
    LET selE == SelEdges(scene_edges)
        ge1 == model_delete_edge(graph_edges, nodes, { scene_edges[i] : i \in selE })
        es1 == DropAt(scene_edges, selE)
        incident == { i \in 1 .. Len(es1) :
                        es1[i].src \in selected \/ es1[i].dst \in selected }
        ge2 == model_delete_edge(ge1, nodes, { es1[i] : i \in incident })
        es2 == DropAt(es1, incident)
        nids == { nodes[it].id : it \in selected }
        gn2 == SelectSeqBy(graph_nodes, { o \in Range(graph_nodes) : nodes[o].id \notin nids })
        f1 == IF selE # {} THEN sync_inspector(form, nodes, its1) ELSE form
        f2 == IF Cardinality(selected) >= 2 THEN sync_inspector(f1, nodes, its2) ELSE f1
    IN /\ Selection(selected, scene_edges) # <<{}, {}>>
       /\ Tick
       /\ its1 \in current_node_item(selected)
       /\ its2 \in current_node_item(selected)
       /\ graph_edges' = ge2
       /\ scene_edges' = es2
       /\ scene_items' = scene_items \ selected
       /\ scene_nodes' = [id \in DOMAIN scene_nodes \ nids |-> scene_nodes[id]]
       /\ item_pos' = [i \in scene_items \ selected |-> item_pos[i]]
       /\ graph_nodes' = gn2
       /\ selected' = {}
       /\ form' = f2
       /\ nodes' = Collect(nodes, gn2, scene_items \ selected, edgeSource)
       /\ UNCHANGED <<sync, edgeSource, file, world, exported, query, hidden, uuids>>

----------------------------------------------------------------------------
(* The inspector: write-back and attachments *)

\* the list objects held by the NodeData objects of ns other than the tags
\* list (resp. the attachments list) of object o, which is being rebound
ListObjsBesideTags(ns, o) ==
    { ns[p].tagsObj : p \in Live(ns) \ {o} }
        \cup { ns[p].attachmentsObj : p \in Live(ns) }

\* every NodeData that holds the list object obj as its attachments sees
\* an in-place change of that list
AttachmentsInPlace(ns, obj, new) ==
    [p \in Oids |->
        IF ns[p] # NoNode /\ ns[p].attachmentsObj = obj
        THEN [ns[p] EXCEPT !.attachments = new] ELSE ns[p]]

\* the same without "list(dict.fromkeys(tags))"
TagsOfTextMutant(text) ==
    LET pieces == Split(text, ",")
        stripped == [i \in 1 .. Len(pieces) |-> Strip(pieces[i])]
    IN SelectSeqBy(stripped, Range(stripped) \ {<<>>})

\* "tags = [t.strip() for t in text.split(',') if t.strip()]" and
\* "list(dict.fromkeys(tags))"
TagsOfText(text) ==
    LET pieces == Split(text, ",")
        stripped == [i \in 1 .. Len(pieces) |-> Strip(pieces[i])]
    IN FromKeys(SelectSeqBy(stripped, Range(stripped) \ {<<>>}), {})

\* "max(0, min(100, int(text)))", 50 when int raises
ConfidenceOfText(text) ==
    LET r == ParseInt(text)
    IN IF r.ok THEN MaxOf(0, MinOf(100, r.v)) ELSE 50

\* MainWindow.update_selected_from_ui with `it` the current node item: the
\* heap after the write-back of the form f
update_selected_from_ui(f, ns, it) ==
    IF it = NoItem THEN ns
    ELSE [ns EXCEPT ![it] =
            [@ EXCEPT !.label = IF Strip(f.name) = <<>> THEN T_Untitled
                                ELSE Strip(f.name),
                      !.group = f.group,
                      !.status = f.status,
                      !.confidence = ConfidenceOfText(f.conf),
                      !.tags = TagsOfText(f.tags),
                      !.tagsObj = FreshListObj(ListObjsBesideTags(ns, it)),
                      !.notes = f.notes]]

\* what the user types or picks in one widget of the form
FormInputs ==
    { <<"name", <<>>>>, <<"name", <<" ", "m", "@", "b", ".", "i", "o">>>>,
      <<"group", "person">>, <<"group", "ip">>, <<"group", "domain">>,
      <<"group", "url">>,
      <<"status", "unknown">>, <<"status", "false">>,
      <<"conf", <<"1", "5", "0">>>>, <<"conf", <<"-", "5">>>>,
      <<"conf", <<"a", "b", "c">>>>,
      <<"tags", <<"a", ",", "a", " ", ",", ",", " ", "b">>>>, <<"tags", <<>>>>,
      <<"notes", <<"x", " ", "n", "@", "c", ".", "d", "e">>>> }

\* A user edit of one widget (textEdited, currentIndexChanged, textChanged):
\* the widget takes the value and update_selected_from_ui runs
EditForm(input) ==
    /\ form[input[1]] # input[2]
    /\ Tick
    /\ form' = [form EXCEPT ![input[1]] = input[2]]
    /\ \E it \in current_node_item(selected) :
         nodes' = update_selected_from_ui(form', nodes, it)
    /\ UNCHANGED <<sync, graph_nodes, graph_edges, scene_items, scene_nodes,
                   scene_edges, item_pos, selected, edgeSource, file, world, exported, query, hidden,
                   uuids>>

U_file == <<"f", "i", "l", "e", ":", "/", "/", "/", "a">>
U_link == <<"h", "t", "t", "p", ":", "/", "/", "b", ".", "i", "o">>
T_file == <<"f", "i", "l", "e">>
T_link == <<"l", "i", "n", "k">>

\* what the two file dialogs of add_attachment come back with: a file URL,
\* a text that is a valid URL, a text that is not, or nothing
AttachInputs == {"file", "link", "invalid"}

\* MainWindow.add_attachment; it ends with sync_inspector
add_attachment(input) ==
    /\ selected # {}
    /\ Tick
    /\ \E it \in selected :
         LET nd == nodes[it]
             new == CASE input = "file" -> Append(nd.attachments, Attachment(T_file, U_file))
                      [] input = "link" -> Append(nd.attachments, Attachment(T_link, U_link))
                      [] OTHER -> nd.attachments
         IN /\ nodes' = AttachmentsInPlace(nodes, nd.attachmentsObj, new)
            /\ form' = sync_inspector(form, nodes', it)
    /\ UNCHANGED <<sync, graph_nodes, graph_edges, scene_items, scene_nodes,
                   scene_edges, item_pos, selected, edgeSource, file, world, exported, query, hidden,
                   uuids>>

\* MainWindow.del_attachment with `row` the current row of attachList; a
\* row the node's list has not raises IndexError and nothing changes
del_attachment(row) ==
    /\ selected # {}
    /\ row \in 0 .. (form.rows - 1)
    /\ Tick
    /\ \E it \in selected :
         LET nd == nodes[it] IN
         IF row >= Len(nd.attachments)
         THEN UNCHANGED <<sync, nodes, form>>
         ELSE /\ nodes' = AttachmentsInPlace(nodes, nd.attachmentsObj,
                                             DropAt(nd.attachments, {row + 1}))
              /\ form' = sync_inspector(form, nodes', it)
    /\ UNCHANGED <<sync, graph_nodes, graph_edges, scene_items, scene_nodes,
                   scene_edges, item_pos, selected, edgeSource, file, world, exported, query, hidden,
                   uuids>>

\* NodeItem.dropEvent with one URL dropped on the item
dropEvent(o) ==
    /\ o \in scene_items
    /\ o \notin hidden
    /\ Tick
    /\ nodes' = AttachmentsInPlace(nodes, nodes[o].attachmentsObj,
                    Append(nodes[o].attachments, Attachment(T_link, U_link)))
    /\ UNCHANGED <<sync, graph_nodes, graph_edges, scene_items, scene_nodes,
                   scene_edges, item_pos, selected, edgeSource, form, file,
                   world, exported, query, hidden, uuids>>

----------------------------------------------------------------------------
(* Search *)

UpperCase == <<"A", "B", "C", "D", "E", "F", "G", "H", "I", "J", "K", "L", "M",
               "N", "O", "P", "Q", "R", "S", "T", "U", "V", "W", "X", "Y", "Z">>
LowerCase == <<"a", "b", "c", "d", "e", "f", "g", "h", "i", "j", "k", "l", "m",
               "n", "o", "p", "q", "r", "s", "t", "u", "v", "w", "x", "y", "z">>

\* str.lower()
Lower(t) ==
    [i \in 1 .. Len(t) |->
        IF \E k \in 1 .. 26 : UpperCase[k] = t[i]
        THEN LowerCase[CHOOSE k \in 1 .. 26 : UpperCase[k] = t[i]]
        ELSE t[i]]

\* "q in t" for two str
Contains(t, q) ==
    \E i \in 0 .. (Len(t) - Len(q)) : SubSeq(t, i + 1, i + Len(q)) = q

\* the test of apply_search on one NodeData, q being the lowered query
Hit(nd, q) ==
    \/ Contains(Lower(nd.label), q)
    \/ \E i \in 1 .. Len(nd.tags) : Contains(Lower(nd.tags[i]), q)
    \/ \E i \in 1 .. Len(nd.attachments) :
          Contains(Lower(nd.attachments[i].label \o <<" ">> \o nd.attachments[i].url), q)
    \/ Contains(Lower(nd.notes), q)

\* what the user leaves in the search box
Queries == { <<>>, <<"H", "U", "B">>, <<" ", "g", "a", "r", " ">>, <<"z", "z">> }

\* MainWindow.apply_search(text), the slot of searchBox.textChanged: the
\* items of scene.nodes are shown or hidden; an item that is hidden loses
\* its selection (QGraphicsItem.setVisible), and the inspector follows
apply_search(text) ==
    LET q == Lower(Strip(text))
        tested == { scene_nodes[id] : id \in DOMAIN scene_nodes }
        hid == IF q = <<>> THEN hidden \ tested
               ELSE (hidden \ tested) \cup { it \in tested : ~ Hit(nodes[it], q) }
    IN /\ text # query
       /\ Tick
       /\ query' = text
       /\ hidden' = hid
       /\ selected' = selected \ hid
       /\ \E it \in current_node_item(selected') :
            form' = OnSelectionChanged(form, nodes, selected, selected', it)
       /\ UNCHANGED <<sync, nodes, graph_nodes, graph_edges, scene_items,
                      scene_nodes, scene_edges, item_pos, edgeSource, file,
                      world, exported, uuids>>

----------------------------------------------------------------------------
(* Enrichment *)

\* requests.utils.quote of one character: letters, digits and "_.-~/" stay
PercentCode(c) ==
    IF c \in Letters \cup Digits \cup {"_", ".", "-", "~", "/"} THEN <<c>>
    ELSE CASE c = " " -> <<"%", "2", "0">>
           [] c = "@" -> <<"%", "4", "0">>
           [] c = "," -> <<"%", "2", "C">>
           [] c = ":" -> <<"%", "3", "A">>
           [] c = "+" -> <<"%", "2", "B">>
           [] c = "%" -> <<"%", "2", "5">>
           [] c = "ü" -> <<"%", "C", "3", "%", "B", "C">>

RECURSIVE Quote(_)
Quote(t) == IF t = <<>> THEN <<>> ELSE PercentCode(Head(t)) \o Quote(Tail(t))

U_google == <<"h", "t", "t", "p", "s", ":", "/", "/", "w", "w", "w", ".", "g", "o", "o", "g", "l", "e", ".", "c", "o", "m", "/", "s", "e", "a", "r", "c", "h", "?", "q", "=">>
U_linkedin == <<"h", "t", "t", "p", "s", ":", "/", "/", "w", "w", "w", ".", "l", "i", "n", "k", "e", "d", "i", "n", ".", "c", "o", "m", "/", "s", "e", "a", "r", "c", "h", "/", "r", "e", "s", "u", "l", "t", "s", "/", "a", "l", "l", "/", "?", "k", "e", "y", "w", "o", "r", "d", "s", "=">>
U_hibp == <<"h", "t", "t", "p", "s", ":", "/", "/", "h", "a", "v", "e", "i", "b", "e", "e", "n", "p", "w", "n", "e", "d", ".", "c", "o", "m", "/">>
U_https == <<"h", "t", "t", "p", "s", ":", "/", "/">>
U_favicon_ico == <<"/", "f", "a", "v", "i", "c", "o", "n", ".", "i", "c", "o">>
U_shodan == <<"h", "t", "t", "p", "s", ":", "/", "/", "w", "w", "w", ".", "s", "h", "o", "d", "a", "n", ".", "i", "o", "/", "h", "o", "s", "t", "/">>
U_abuseipdb == <<"h", "t", "t", "p", "s", ":", "/", "/", "w", "w", "w", ".", "a", "b", "u", "s", "e", "i", "p", "d", "b", ".", "c", "o", "m", "/", "c", "h", "e", "c", "k", "/">>

urls_for_person(label) ==
    << Attachment(<<"G", "o", "o", "g", "l", "e">>, U_google \o Quote(label)),
       Attachment(<<"L", "i", "n", "k", "e", "d", "I", "n">>, U_linkedin \o Quote(label)),
       Attachment(<<"H", "a", "v", "e", "I", "B", "e", "e", "n", "P", "w", "n", "e", "d">>, U_hibp) >>

urls_for_domain(w, target) ==
    IF w.favicon
    THEN << Attachment(<<"f", "a", "v", "i", "c", "o", "n">>, U_https \o target \o U_favicon_ico) >>
    ELSE <<>>

urls_for_ip(ip) ==
    << Attachment(<<"S", "h", "o", "d", "a", "n">>, U_shodan \o ip),
       Attachment(<<"A", "b", "u", "s", "e", "I", "P", "D", "B">>, U_abuseipdb \o ip) >>

\* EMAIL_RE = [A-Z0-9._%+-]+@[A-Z0-9.-]+\.[A-Z]{2,} with re.I
LocalChars == Letters \cup Digits \cup {".", "_", "%", "+", "-"}
DomainChars == Letters \cup Digits \cup {".", "-"}

RECURSIVE RunEnd(_, _, _)
\* the last index of the run of characters of C that starts at i (i - 1
\* when t[i] is not in C)
RunEnd(t, i, C) ==
    IF i <= Len(t) /\ t[i] \in C THEN RunEnd(t, i + 1, C) ELSE i - 1

\* the index where the match of EMAIL_RE that starts at i ends, 0 when none
\* starts there.  The local part is the whole run up to "@"; the greedy domain
\* part gives back characters until a "." is followed by two or more letters.
EmailMatchEnd(t, i) ==
    LET j == RunEnd(t, i, LocalChars)
        m == RunEnd(t, j + 2, DomainChars)
        dots == { e \in (j + 3) .. m :
                    t[e] = "." /\ RunEnd(t, e + 1, Letters) >= e + 2 }
    IN IF j < i \/ j + 1 > Len(t) \/ t[j + 1] # "@" \/ dots = {} THEN 0
       ELSE RunEnd(t, (CHOOSE e \in dots : \A d \in dots : d <= e) + 1, Letters)

RECURSIVE FindAllFrom(_, _)
\* EMAIL_RE.findall(t): the matches from left to right, not overlapping
FindAllFrom(t, i) ==
    IF i > Len(t) THEN {}
    ELSE LET e == EmailMatchEnd(t, i)
         IN IF e = 0 THEN FindAllFrom(t, i + 1)
            ELSE {SubSeq(t, i, e)} \cup FindAllFrom(t, e + 1)

FindAll(t) == FindAllFrom(t, 1)

\* the characters of the addresses EMAIL_RE can match, by code point
CodePoints ==
    << "%", "+", "-", ".", "0", "1", "2", "3", "4", "5", "6", "7", "8", "9", "@",
       "A", "B", "C", "D", "E", "F", "G", "H", "I", "J", "K", "L", "M",
       "N", "O", "P", "Q", "R", "S", "T", "U", "V", "W", "X", "Y", "Z", "_",
       "a", "b", "c", "d", "e", "f", "g", "h", "i", "j", "k", "l", "m",
       "n", "o", "p", "q", "r", "s", "t", "u", "v", "w", "x", "y", "z" >>
CodePoint(c) == CHOOSE k \in 1 .. Len(CodePoints) : CodePoints[k] = c

RECURSIVE TextLess(_, _)
\* a < b for two str
TextLess(a, b) ==
    IF b = <<>> THEN FALSE
    ELSE IF a = <<>> THEN TRUE
    ELSE IF Head(a) = Head(b) THEN TextLess(Tail(a), Tail(b))
    ELSE CodePoint(Head(a)) < CodePoint(Head(b))

RECURSIVE Sorted(_)
\* sorted(set of str)
Sorted(S) ==
    IF S = {} THEN <<>>
    ELSE LET least == CHOOSE a \in S : \A b \in S \ {a} : TextLess(a, b)
         IN <<least>> \o Sorted(S \ {least})

\* MainWindow.extract_emails
extract_emails(nd) ==
    Sorted(UNION { FindAll(nd.attachments[i].url \o <<" ">> \o nd.attachments[i].label) :
                     i \in 1 .. Len(nd.attachments) }
           \cup FindAll(nd.label) \cup FindAll(nd.notes))

T_registrar == <<"r", "e", "g", "i", "s", "t", "r", "a", "r", ":">>
T_ns == <<"n", "s", ":">>
T_dns == <<"d", "n", "s", ":">>
T_email == <<"e", "m", "a", "i", "l", ":">>

\* the same without the "not any(...)" test
AppendAllUrls(atts, new) == atts \o new

RECURSIVE AppendNewUrls(_, _)
\* "for att in new: if not any(att.url == a.url for a in atts): atts.append(att)"
AppendNewUrls(atts, new) ==
    IF new = <<>> THEN atts
    ELSE AppendNewUrls(
            IF \E i \in 1 .. Len(atts) : atts[i].url = Head(new).url
            THEN atts ELSE Append(atts, Head(new)),
            Tail(new))

RECURSIVE AppendNewTags(_, _)
\* "for tag in new: if tag not in tags: tags = tags + [tag]"
AppendNewTags(tags, new) ==
    IF new = <<>> THEN tags
    ELSE AppendNewTags(
            IF Head(new) \in Range(tags) THEN tags ELSE Append(tags, Head(new)),
            Tail(new))

RECURSIVE DnsTags(_)
\* the "dns:<k>:<v>" tags of the records, in the order of the response
DnsTags(recs) ==
    IF recs = <<>> THEN <<>>
    ELSE [i \in 1 .. Len(Head(recs).vals) |->
            T_dns \o Head(recs).k \o <<":">> \o Head(recs).vals[i]]
         \o DnsTags(Tail(recs))

\* the tags the domain step looks for: registrar, name servers, DNS records
DomainTags(w) ==
    (IF w.registrar # <<>> THEN << T_registrar \o w.registrar >> ELSE <<>>)
    \o [i \in 1 .. Len(w.name_servers) |-> T_ns \o w.name_servers[i]]
    \o DnsTags(w.dns)

\* the host the domain step looks up: the label, or for a url node what
\* tldextract finds in it
EnrichTarget(nd, w) == IF nd.group = "url" THEN w.domain ELSE nd.label

\* the NodeData after enrich_selected, tagsObj left aside
Enriched(nd, w) ==
    LET a1 == IF nd.group = "person" /\ nd.label # <<>>
              THEN AppendNewUrls(nd.attachments, urls_for_person(nd.label))
              ELSE nd.attachments
        target == EnrichTarget(nd, w)
        lookup == nd.group \in {"domain", "url"} /\ target # <<>>
        t2 == IF lookup THEN AppendNewTags(nd.tags, DomainTags(w)) ELSE nd.tags
        a2 == IF lookup THEN AppendNewUrls(a1, urls_for_domain(w, target)) ELSE a1
        a3 == IF nd.group = "ip" THEN AppendNewUrls(a2, urls_for_ip(nd.label)) ELSE a2
        nd3 == [nd EXCEPT !.attachments = a3, !.tags = t2]
        emails == extract_emails(nd3)
    IN IF emails = <<>> THEN nd3
       ELSE [nd3 EXCEPT
               !.tags = AppendNewTags(t2, [i \in 1 .. Len(emails) |-> T_email \o emails[i]]),
               !.status = IF nd.status = "unknown" THEN "suspected" ELSE nd.status,
               !.confidence = MaxOf(nd.confidence, 60)]

\* MainWindow.enrich_selected on the NodeItem `it`: attachments are appended
\* in place, tags are rebound to a new list whenever a tag is added or an
\* e-mail address is found
enrich_selected_on(ns, w, it) ==
    LET nd == ns[it]
        e == Enriched(nd, w)
        rebound == e.tags # nd.tags \/ extract_emails(e) # <<>>
        ns1 == AttachmentsInPlace(ns, nd.attachmentsObj, e.attachments)
    IN [ns1 EXCEPT ![it] =
          [e EXCEPT !.tagsObj = IF rebound
                                THEN FreshListObj(ListObjsBesideTags(ns, it))
                                ELSE nd.tagsObj]]

\* The Enrich button / Ctrl+E
enrich_selected ==
    /\ selected # {}
    /\ TickKind("enrichments")
    /\ \E it \in selected :
         /\ nodes' = enrich_selected_on(nodes, world, it)
         /\ form' = sync_inspector(form, nodes', it)
    /\ UNCHANGED <<sync, graph_nodes, graph_edges, scene_items, scene_nodes,
                   scene_edges, item_pos, selected, edgeSource, file, world, exported, query, hidden,
                   uuids>>

----------------------------------------------------------------------------
(* JSON I/O *)

\* JSON scalars where Python converts them on import: a number, a string
Num(v) == [t |-> "num", v |-> v]
Str(text) == [t |-> "str", v |-> text]

\* dict.get(k, default)
Get(d, k, default) == IF k \in DOMAIN d THEN d[k] ELSE default

\* int(j) of a JSON scalar; a whole number stays, a string is parsed
PyInt(j) == IF j.t = "num" THEN [ok |-> TRUE, v |-> j.v] ELSE ParseInt(j.v)

\* float(j) of a JSON scalar (the numbers of this model are whole, and so
\* are the numerals in its strings)
PyFloat(j) == IF j.t = "num" THEN [ok |-> TRUE, v |-> j.v] ELSE ParseInt(j.v)

\* the fields of a NodeData, the identity of its lists left aside
NodeFields(nd) ==
    [id |-> nd.id, label |-> nd.label, group |-> nd.group, tags |-> nd.tags,
     status |-> nd.status, confidence |-> nd.confidence,
     attachments |-> nd.attachments, notes |-> nd.notes, x |-> nd.x, y |-> nd.y]

\* the GraphData by value
GraphValue(ns, gn, ge) ==
    [nodes |-> [i \in 1 .. Len(gn) |-> NodeFields(ns[gn[i]])], edges |-> ge]

\* export_json, "update node positions before save": a NodeData of
\* graph.nodes takes the position of the item scene.nodes holds for its id
Flushed(ns, gn, sn, pos) ==
    [o \in Oids |->
        IF o \in Range(gn) /\ ns[o].id \in DOMAIN sn
        THEN [ns[o] EXCEPT !.x = pos[sn[ns[o].id]][1], !.y = pos[sn[ns[o].id]][2]]
        ELSE ns[o]]

\* {**asdict(n), "tags": list(n.tags), "attachments": [asdict(Attachment(...))]}
\* as json.dump writes it
NodeDict(nd) ==
    [id |-> nd.id, label |-> nd.label, group |-> nd.group, tags |-> nd.tags,
     status |-> nd.status, confidence |-> Num(nd.confidence),
     attachments |-> [i \in 1 .. Len(nd.attachments) |->
                        [label |-> nd.attachments[i].label,
                         url |-> nd.attachments[i].url]],
     notes |-> nd.notes, x |-> Num(nd.x), y |-> Num(nd.y)]

\* asdict(e) of an EdgeData
EdgeDict(e) ==
    [source |-> e.source, target |-> e.target, label |-> e.label, style |-> e.style]

\* MainWindow.export_json with a path chosen
export_json ==
    /\ Tick
    /\ nodes' = Flushed(nodes, graph_nodes, scene_nodes, item_pos)
    /\ file' = [nodes |-> [i \in 1 .. Len(graph_nodes) |-> NodeDict(nodes'[graph_nodes[i]])],
                edges |-> [i \in 1 .. Len(graph_edges) |-> EdgeDict(graph_edges[i])]]
    /\ exported' = GraphValue(nodes', graph_nodes, graph_edges)
    /\ UNCHANGED <<sync, graph_nodes, graph_edges, scene_items, scene_nodes,
                   scene_edges, item_pos, selected, edgeSource, form, world,
                   uuids, query, hidden>>

\* Attachment(**a) and EdgeData(**e) raise TypeError on a key that is not a
\* field; int() and float() raise ValueError on a text that is no number
AttachmentDictOk(a) == DOMAIN a \subseteq {"label", "url"}
EdgeDictOk(e) == DOMAIN e \subseteq {"source", "target", "label", "style"}
NodeDictOk(n) ==
    /\ PyInt(Get(n, "confidence", Num(50))).ok
    /\ \A i \in 1 .. Len(Get(n, "attachments", <<>>)) :
          AttachmentDictOk(n.attachments[i])
    /\ PyFloat(Get(n, "x", Num(0))).ok
    /\ PyFloat(Get(n, "y", Num(0))).ok

AttachmentOfDict(a) == Attachment(Get(a, "label", T_link), Get(a, "url", <<>>))

\* the same, a missing or a null label read as the empty text
NodeOfDictMutant(n, tobj, aobj) ==
    NodeData(Get(n, "id", ""), Get(n, "label", T_Untitled), Get(n, "group", "note"),
             Get(n, "tags", <<>>), tobj, Get(n, "status", "unknown"),
             PyInt(Get(n, "confidence", Num(50))).v,
             [i \in 1 .. Len(Get(n, "attachments", <<>>)) |->
                 AttachmentOfDict(n.attachments[i])],
             aobj, <<>>,
             PyFloat(Get(n, "x", Num(0))).v, PyFloat(Get(n, "y", Num(0))).v)

\* the NodeData import_json builds from one element of data["nodes"], with
\* tobj and aobj the new lists "list(...)" and "[... for a in ...]" make
NodeOfDict(n, tobj, aobj) ==
    NodeData(Get(n, "id", ""), Get(n, "label", T_Untitled), Get(n, "group", "note"),
             Get(n, "tags", <<>>), tobj, Get(n, "status", "unknown"),
             PyInt(Get(n, "confidence", Num(50))).v,
             [i \in 1 .. Len(Get(n, "attachments", <<>>)) |->
                 AttachmentOfDict(n.attachments[i])],
             aobj, Get(n, "notes", <<>>),
             PyFloat(Get(n, "x", Num(0))).v, PyFloat(Get(n, "y", Num(0))).v)

EdgeOfDict(e) ==
    EdgeData(Get(e, "source", ""), Get(e, "target", ""), Get(e, "label", ""),
             Get(e, "style", "solid"))

\* how many elements of a list a loop handles before one raises
\* (oks[i] tells whether the i-th element goes through)
Handled(oks) ==
    LET bad == { i \in 1 .. Len(oks) : ~ oks[i] }
    IN IF bad = {} THEN Len(oks) ELSE Min(bad) - 1

\* the i-th smallest element of S
NthFree(S, i) == CHOOSE x \in S : Cardinality({ y \in S : y < x }) = i - 1

\* a file json.load cannot read
Unreadable == [unreadable |-> TRUE]

\* MainWindow.import_json with a path chosen and `doc` what the file holds.
\* json.load raises before the reset; an exception in one of the two loops
\* ends the import with what was appended so far.  scene.clear() destroys
\* the items (the selection empties, the inspector follows the items that
\* are still selected meanwhile) but leaves _edgeSource as it is.
import_json(doc) ==
    /\ Tick
    /\ IF doc = Unreadable
       THEN UNCHANGED <<sync, nodes, graph_nodes, graph_edges, scene_items,
                        scene_nodes, scene_edges, item_pos, selected, form>>
       ELSE
         LET dn == Get(doc, "nodes", <<>>)
             de == Get(doc, "edges", <<>>)
             kn == Handled([i \in 1 .. Len(dn) |-> NodeDictOk(dn[i])])
             ke == IF kn < Len(dn) THEN 0 ELSE Handled([i \in 1 .. Len(de) |-> EdgeDictOk(de[i])])
             kept == IF edgeSource = NoItem THEN {} ELSE {edgeSource}
             freeOids == Oids \ kept
             freeObjs == (0 .. 2 * MaxObjs + 1) \
                           UNION { {nodes[o].tagsObj, nodes[o].attachmentsObj} : o \in kept }
             oid(i) == NthFree(freeOids, i)
             ns1 == [o \in Oids |->
                       IF o \in kept THEN nodes[o]
                       ELSE IF \E i \in 1 .. kn : oid(i) = o
                       THEN LET i == CHOOSE i \in 1 .. kn : oid(i) = o
                            IN NodeOfDict(dn[i], NthFree(freeObjs, 2 * i - 1),
                                          NthFree(freeObjs, 2 * i))
                       ELSE NoNode]
             gn1 == [i \in 1 .. kn |-> oid(i)]
             ge1 == [i \in 1 .. ke |-> EdgeOfDict(de[i])]
             sn1 == SceneNodesOf(ns1, gn1)
         IN /\ kn <= Cardinality(freeOids)
            /\ nodes' = ns1
            /\ graph_nodes' = gn1
            /\ graph_edges' = ge1
            /\ scene_items' = Range(gn1)
            /\ scene_nodes' = sn1
            /\ scene_edges' = SceneAddEdges(sn1, <<>>, ge1)
            /\ item_pos' = [o \in Range(gn1) |-> <<ns1[o].x, ns1[o].y>>]
            /\ selected' = {}
            /\ \E it \in current_node_item(selected) :
                 form' \in
                    IF Cardinality(selected) >= 2
                    THEN {sync_inspector(form, nodes, it)}
                    ELSE IF SelEdges(scene_edges) # {}
                    THEN {form, sync_inspector(form, nodes, it)}
                    ELSE {form}
    /\ hidden' = IF doc = Unreadable THEN hidden ELSE {}
    /\ UNCHANGED <<sync, edgeSource, file, world, exported, query, uuids>>

\* where the user drops a NodeItem after dragging it (ItemIsMovable)
Drops == { <<7, 9>> }

MoveNode(o, p) ==
    /\ o \in scene_items
    /\ o \notin hidden
    /\ item_pos[o] # p
    /\ Tick
    /\ item_pos' = [item_pos EXCEPT ![o] = p]
    /\ UNCHANGED <<sync, nodes, graph_nodes, graph_edges, scene_items, scene_nodes,
                   scene_edges, selected, edgeSource, form, file, world,
                   exported, query, hidden, uuids>>

\* the documents a user opens besides the one export_json wrote
T_a == <<"a">>
T_mail == <<"m", "@", "b", ".", "i", "o">>
DocDuplicates ==
    [nodes |-> << [id |-> "u1", label |-> T_a, tags |-> <<T_a, T_a>>,
                   confidence |-> Num(150)],
                  [id |-> "u1", group |-> "person", notes |-> T_mail,
                   tags |-> <<T_email \o T_mail, T_email \o T_mail>>] >>,
     edges |-> << [source |-> "u1", target |-> "u1", label |-> "x"],
                  [source |-> "u1", target |-> "u1", label |-> "x"],
                  [source |-> "u1", target |-> "u9"] >>]
DocBadNumber ==
    [nodes |-> << [id |-> "u1", label |-> T_a],
                  [id |-> "u2", confidence |-> Str(<<"a", "b", "c">>)] >>,
     edges |-> << [source |-> "u1", target |-> "u1"] >>]
DocExtraKeys ==
    [nodes |-> << [id |-> "u1", color |-> "red"], [label |-> T_a] >>,
     edges |-> << [source |-> "u1", target |-> "", weight |-> 2] >>]
Docs == {DocDuplicates, DocBadNumber, DocExtraKeys, Unreadable}

----------------------------------------------------------------------------
(* The canvas alone: seeding, add-node, selection, the connection gesture, *)
(* edge-label edits and deletions (no import, no inspector edit)           *)

NextCanvas ==
    \/ \E c \in Centers : add_node_ui(c)
    \/ \E o \in Oids : ClickNode(o)
    \/ \E i \in 1 .. Len(scene_edges) : ClickEdge(i)
    \/ ClickBackground
    \/ \E o \in Oids, input \in LabelInputs : edge_click(o, input)
    \/ \E i \in 1 .. Len(scene_edges), input \in LabelInputs : edge_mouseDoubleClickEvent(i, input)
    \/ \E i \in 1 .. Len(scene_edges) : edge_contextMenuEvent(i)
    \/ \E its1, its2 \in Oids \cup {NoItem} : keyPressEvent_Delete(its1, its2)

SpecCanvas == Init /\ [][NextCanvas]_vars

----------------------------------------------------------------------------
(* The inspector: selection, form edits, attachments, enrichment, with     *)
(* nodes from seeding, add-node and import                                 *)

NextInspector ==
    \/ \E c \in Centers : add_node_ui(c)
    \/ \E o \in Oids : ClickNode(o)
    \/ ClickBackground
    \/ \E input \in FormInputs : EditForm(input)
    \/ \E input \in AttachInputs : add_attachment(input)
    \/ \E row \in 0 .. 1 : del_attachment(row)
    \/ \E o \in Oids : dropEvent(o)
    \/ enrich_selected
    \/ \E doc \in Docs : import_json(doc)

InitInspector == Session(Worlds, MaxInspectorSteps)

SpecInspector == InitInspector /\ [][NextInspector]_vars

----------------------------------------------------------------------------
(* Documents: export and import among add-node, moves, inspector edits and *)
(* deletions                                                               *)

NextCodec ==
    \/ \E c \in Centers : add_node_ui(c)
    \/ \E o \in Oids : ClickNode(o)
    \/ \E o \in Oids, p \in Drops : MoveNode(o, p)
    \/ \E input \in FormInputs : EditForm(input)
    \/ \E its1, its2 \in Oids \cup {NoItem} : keyPressEvent_Delete(its1, its2)
    \/ export_json
    \/ \E doc \in Docs : import_json(doc)
    \/ file # NoFile /\ import_json(file)

InitCodec == Session({WorldDown}, MaxCodecSteps)

SpecCodec == InitCodec /\ [][NextCodec]_vars

----------------------------------------------------------------------------
(* Search among selection, form edits, add-node and import                 *)

NextSearch ==
    \/ \E c \in Centers : add_node_ui(c)
    \/ \E o \in Oids : ClickNode(o)
    \/ \E input \in FormInputs : EditForm(input)
    \/ \E text \in Queries : apply_search(text)
    \/ \E doc \in Docs : import_json(doc)

InitSearch == Session({WorldDown}, MaxSearchSteps)

SpecSearch == InitSearch /\ [][NextSearch]_vars

----------------------------------------------------------------------------
(* sync_inspector statement by statement: a click selects a node, the      *)
(* slot of scene.selectionChanged starts, and each of its statements is a  *)
(* step; a setter that changes its widget emits the widget's signal unless *)
(* the widget is blocked                                                   *)

\* the signals connected to update_selected_from_ui that a programmatic
\* write of the widget emits: currentIndexChanged of the two combo boxes and
\* textChanged of the QTextEdit (textEdited of a QLineEdit is emitted for
\* user edits only)
EmittedOnSet == {"group", "status", "notes"}

blockSignals_Ignored(blocked, ws, b) == blocked

\* "for w in widgets: w.blockSignals(b)": the blocked widgets afterwards
blockSignals(blocked, ws, b) == IF b THEN blocked \cup ws ELSE blocked \ ws

\* the statement after the write of widget number i
AfterWrite(i) == IF i < Len(Widgets) THEN Widgets[i + 1] ELSE "attach"

\* A plain click on a NodeItem, as ClickNode, up to the start of
\* sync_inspector: "it = self.current_node_item(); if not it: return;
\* nd = it.model"
ClickNodeSync(o) ==
    /\ o \in scene_items
    /\ o \notin hidden
    /\ Tick
    /\ selected' = {o}
    /\ scene_edges' = ClearEdgeSel(scene_edges)
    /\ \E it \in current_node_item(selected') :
         sync' = IF Selection(selected, scene_edges) = Selection({o}, scene_edges')
                 THEN sync
                 ELSE [sync EXCEPT !.pc = "syncing", !.it = it]
    /\ UNCHANGED <<nodes, graph_nodes, graph_edges, scene_items, scene_nodes,
                   item_pos, edgeSource, form, file, world, exported, query,
                   hidden, uuids>>

\* "self._syncing = True"
sync_inspector_syncing ==
    /\ sync.pc = "syncing"
    /\ sync' = [sync EXCEPT !.pc = "block", !.syncing = TRUE]
    /\ UNCHANGED <<nodes, graph_nodes, graph_edges, scene_items, scene_nodes,
                   scene_edges, item_pos, selected, edgeSource, form, file,
                   world, exported, query, hidden, uuids, count>>

\* "for w in widgets: w.blockSignals(True)"
sync_inspector_block ==
    /\ sync.pc = "block"
    /\ sync' = [sync EXCEPT !.pc = Widgets[1],
                            !.blocked = blockSignals(@, Range(Widgets), TRUE)]
    /\ UNCHANGED <<nodes, graph_nodes, graph_edges, scene_items, scene_nodes,
                   scene_edges, item_pos, selected, edgeSource, form, file,
                   world, exported, query, hidden, uuids, count>>

\* the write of widget number i (setText, setCurrentIndex, setCurrentText,
\* setPlainText) with the value sync_inspector gives it; when the widget
\* emits its signal, update_selected_from_ui runs before the setter returns
sync_inspector_write(i) ==
    /\ i \in 1 .. Len(Widgets)
    /\ sync.pc = Widgets[i]
    /\ LET w == Widgets[i]
           f == [form EXCEPT ![w] = sync_inspector(form, nodes, sync.it)[w]]
           emits == /\ w \in EmittedOnSet
                    /\ f[w] # form[w]
                    /\ w \notin sync.blocked
       IN /\ form' = f
          /\ IF emits
             THEN /\ \E it \in current_node_item(selected) :
                       nodes' = update_selected_from_ui(f, nodes, it)
                  /\ sync' = [sync EXCEPT !.pc = AfterWrite(i), !.slots = TRUE]
             ELSE /\ nodes' = nodes
                  /\ sync' = [sync EXCEPT !.pc = AfterWrite(i)]
    /\ UNCHANGED <<graph_nodes, graph_edges, scene_items, scene_nodes,
                   scene_edges, item_pos, selected, edgeSource, file, world,
                   exported, query, hidden, uuids, count>>

\* "self.attachList.clear()" and the loop that fills it
sync_inspector_attachList ==
    /\ sync.pc = "attach"
    /\ form' = [form EXCEPT !.rows = sync_inspector(form, nodes, sync.it).rows]
    /\ sync' = [sync EXCEPT !.pc = "unblock"]
    /\ UNCHANGED <<nodes, graph_nodes, graph_edges, scene_items, scene_nodes,
                   scene_edges, item_pos, selected, edgeSource, file, world,
                   exported, query, hidden, uuids, count>>

\* "for w in widgets: w.blockSignals(False)"
sync_inspector_unblock ==
    /\ sync.pc = "unblock"
    /\ sync' = [sync EXCEPT !.pc = "done",
                            !.blocked = blockSignals(@, Range(Widgets), FALSE)]
    /\ UNCHANGED <<nodes, graph_nodes, graph_edges, scene_items, scene_nodes,
                   scene_edges, item_pos, selected, edgeSource, form, file,
                   world, exported, query, hidden, uuids, count>>

\* "self._syncing = False", and sync_inspector returns
sync_inspector_done ==
    /\ sync.pc = "done"
    /\ sync' = [sync EXCEPT !.pc = "idle", !.it = NoItem, !.syncing = FALSE]
    /\ UNCHANGED <<nodes, graph_nodes, graph_edges, scene_items, scene_nodes,
                   scene_edges, item_pos, selected, edgeSource, form, file,
                   world, exported, query, hidden, uuids, count>>

NextSync ==
    \/ \E c \in Centers : add_node_ui(c)
    \/ \E o \in Oids : ClickNodeSync(o)
    \/ sync_inspector_syncing
    \/ sync_inspector_block
    \/ \E i \in 1 .. Len(Widgets) : sync_inspector_write(i)
    \/ sync_inspector_attachList
    \/ sync_inspector_unblock
    \/ sync_inspector_done
    \/ ClickBackground
    \/ \E input \in FormInputs : EditForm(input)

InitSync == Session({WorldDown}, MaxSyncSteps)

SpecSync == InitSync /\ [][NextSync]_vars

----------------------------------------------------------------------------

(* Selection, form edits and enrichment on the nodes of seeding and        *)
(* add-node, without import                                                *)

NextWriteBack ==
    \/ \E c \in Centers : add_node_ui(c)
    \/ \E o \in Oids : ClickNode(o)
    \/ ClickBackground
    \/ \E input \in FormInputs : EditForm(input)
    \/ enrich_selected

InitWriteBack == Session({WorldComma}, MaxWriteBackSteps)

SpecWriteBack == InitWriteBack /\ [][NextWriteBack]_vars

----------------------------------------------------------------------------

(* Claims about the canvas *)

NodeIds == { nodes[graph_nodes[i]].id : i \in 1 .. Len(graph_nodes) }

References(e, id) == e.source = id \/ e.target = id

\* C1 (as claimed): when Delete/Backspace removes the selected nodes, no
\* Edge of graph.edges references the id of a removed node afterwards.
C1_DeleteLeavesNoIncidentEdge ==
    [][ \A its1, its2 \in Oids \cup {NoItem} :
          keyPressEvent_Delete(its1, its2) =>
             \A it \in selected : \A i \in 1 .. Len(graph_edges') :
                ~ References(graph_edges'[i], nodes[it].id) ]_vars

\* C2 (as claimed): without import, every Edge of graph.edges has a source
\* and a target that are ids of Nodes in graph.nodes.
C2_EndpointsExist ==
    \A i \in 1 .. Len(graph_edges) :
        graph_edges[i].source \in NodeIds /\ graph_edges[i].target \in NodeIds

\* C4: the first Shift-click arms the gesture and adds nothing; the
\* Shift-click on a different node then adds exactly Edge(A, B, L, solid) at
\* the end of graph.edges when no Edge had that (source, target, label), adds
\* nothing when one had (the repeated gesture), and leaves the machine Idle.
C4_GestureAddsOneEdge ==
    [][ \A o \in Oids, input \in LabelInputs :
          edge_click(o, input) =>
             IF edgeSource = NoItem
             THEN edgeSource' = o /\ graph_edges' = graph_edges
             ELSE IF o = edgeSource
             THEN edgeSource' = NoItem /\ graph_edges' = graph_edges
             ELSE LET L == IF input[2] THEN input[1] ELSE ""
                      A == nodes[edgeSource].id
                      B == nodes[o].id
                      had == \E i \in 1 .. Len(graph_edges) :
                                SameTriple(graph_edges[i], A, B, L)
                  IN /\ edgeSource' = NoItem
                     /\ had => graph_edges' = graph_edges
                     /\ ~ had => graph_edges' =
                                   Append(graph_edges, EdgeData(A, B, L, "solid")) ]_vars

\* the gesture u1 -> u3 "knows" was made twice: one Edge in the model, two
\* EdgeItems on the canvas, the machine Idle again
C4_Witness ==
    /\ count.connects = 2
    /\ edgeSource = NoItem
    /\ Cardinality({ i \in 1 .. Len(graph_edges) :
           SameTriple(graph_edges[i], Uuid(1), Uuid(3), "knows") }) = 1
    /\ Cardinality({ i \in 1 .. Len(scene_edges) :
           /\ scene_edges[i].label = "knows"
           /\ nodes[scene_edges[i].src].id = Uuid(1)
           /\ nodes[scene_edges[i].dst].id = Uuid(3) }) = 2

\* C3 (as claimed): graph.edges never holds two Edges with the same
\* (source, target, label) triple.
C3_NoDuplicateTriple ==
    \A i, j \in 1 .. Len(graph_edges) :
        i # j => ~ SameTriple(graph_edges[i], graph_edges[j].source,
                              graph_edges[j].target, graph_edges[j].label)

----------------------------------------------------------------------------
(* Claims about documents *)

UniqueIds(ns, gn) ==
    \A i, j \in 1 .. Len(gn) : i # j => ns[gn[i]].id # ns[gn[j]].id

\* C10 (as claimed): no two Nodes of graph.nodes have the same id, and no
\* operation changes the id of a Node that stays in the Graph (import_json
\* replaces the Nodes by new ones).
C10_IdsUniqueAndImmutable ==
    [][ /\ UniqueIds(nodes', graph_nodes')
        /\ (~ \E doc \in Docs \cup {file} : import_json(doc)) =>
              \A o \in Range(graph_nodes) \cap Range(graph_nodes') :
                 nodes'[o].id = nodes[o].id ]_vars

----------------------------------------------------------------------------
(* Claims about the inspector and enrichment *)

\* C6: right after enrich_selected ran on a Node, running it again on the
\* same Node with the same lookup answers leaves the Node's tags,
\* attachments, status and confidence as they are.
C6_EnrichTwice ==
    [][ count'.enrichments # count.enrichments =>
          \A it \in selected :
             nodes' = enrich_selected_on(nodes, world, it) =>
                LET again == enrich_selected_on(nodes', world, it)[it]
                IN /\ again.tags = nodes'[it].tags
                   /\ again.attachments = nodes'[it].attachments
                   /\ again.status = nodes'[it].status
                   /\ again.confidence = nodes'[it].confidence ]_vars

\* C6, its case: a person Node whose label holds an e-mail address was
\* enriched twice: it has the three person links once each, the email tag
\* once, and was promoted
C6_Witness ==
    /\ count.enrichments = 2
    /\ \E o \in Range(graph_nodes) :
          /\ nodes[o].group = "person"
          /\ nodes[o].attachments = urls_for_person(nodes[o].label)
          /\ nodes[o].tags = << T_email \o <<"m", "@", "b", ".", "i", "o">> >>
          /\ nodes[o].status = "suspected"
          /\ nodes[o].confidence = 60

\* no list object is held twice: not as the tags or the attachments of two
\* Nodes, nor as the tags of one and the attachments of another
NoSharedList ==
    \A o, p \in Live(nodes) :
        /\ nodes[o].tagsObj # nodes[p].attachmentsObj
        /\ o # p => /\ nodes[o].tagsObj # nodes[p].tagsObj
                    /\ nodes[o].attachmentsObj # nodes[p].attachmentsObj

\* the Nodes whose tags or attachments a step changes
Mutated ==
    { o \in Live(nodes) \cap Live(nodes') :
         \/ nodes'[o].tags # nodes[o].tags
         \/ nodes'[o].attachments # nodes[o].attachments }

\* C7: in every reachable state no two Nodes share a tags list or an
\* attachments list, and every operation other than import_json (which
\* replaces all Nodes) changes the tags and attachments of at most one
\* Node: an inspector edit, an enrichment, an attachment add or remove and
\* a drop leave every other Node's tags and attachments as they are.
C7_NoAliasing ==
    /\ [] NoSharedList
    /\ [][ \/ Cardinality(Mutated) <= 1
           \/ \E doc \in Docs : import_json(doc) ]_vars

\* C7, its case: among four Nodes (seeded, added or imported) one had its
\* tags edited and an attachment added, and the others have none
C7_Witness ==
    /\ Cardinality(Live(nodes)) >= 3
    /\ \E o \in Range(graph_nodes) :
          /\ nodes[o].tags = <<T_a, <<"b">>>>
          /\ Len(nodes[o].attachments) = 1
          /\ \A p \in Range(graph_nodes) \ {o} :
                nodes[p].attachments = <<>> /\ nodes[p].tags # nodes[o].tags

\* C8 (as claimed): no Node's tags list holds a value twice.
C8_TagsHaveNoDuplicate ==
    \A o \in Range(graph_nodes) :
        Cardinality(Range(nodes[o].tags)) = Len(nodes[o].tags)

\* C9 (as claimed): every Node's confidence is in 0..100.
C9_ConfidenceInRange ==
    \A o \in Range(graph_nodes) : nodes[o].confidence \in 0 .. 100

----------------------------------------------------------------------------
(* Claims about import *)

\* C11 (as claimed): after import_json read a document, graph.edges holds
\* no Edge whose source or target is not the id of a Node of graph.nodes
\* (an Edge of the document that references a missing id was dropped).
C11_ImportDropsDanglingEdge ==
    [][ (\E doc \in (Docs \ {Unreadable}) \cup ({file} \ {NoFile}) : import_json(doc)) =>
          \A i \in 1 .. Len(graph_edges') :
             \A id \in {graph_edges'[i].source, graph_edges'[i].target} :
                \E k \in 1 .. Len(graph_nodes') : nodes'[graph_nodes'[k]].id = id ]_vars

\* the import of doc ends in the "except Exception" branch
import_raises(doc) ==
    \/ doc = Unreadable
    \/ \E i \in 1 .. Len(Get(doc, "nodes", <<>>)) : ~ NodeDictOk(doc.nodes[i])
    \/ \E i \in 1 .. Len(Get(doc, "edges", <<>>)) : ~ EdgeDictOk(doc.edges[i])

\* C12 (as claimed): when import_json fails, the Graph is afterwards either
\* the Graph before the import or empty (no nodes, no edges), never a part
\* of the document.
C12_FailedImportAllOrNothing ==
    [][ \A doc \in Docs \cup ({file} \ {NoFile}) :
          (import_raises(doc) /\ import_json(doc)) =>
             \/ GraphValue(nodes', graph_nodes', graph_edges')
                   = GraphValue(nodes, graph_nodes, graph_edges)
             \/ graph_nodes' = <<>> /\ graph_edges' = <<>> ]_vars

NodeKeys == {"id", "label", "group", "tags", "status", "confidence",
             "attachments", "notes", "x", "y"}

\* a dict without the keys outside K
Restrict(d, K) == [k \in DOMAIN d \cap K |-> d[k]]

\* the document doc without the keys that are no field of a Node, an
\* Attachment or an Edge
Stripped(doc) ==
    [nodes |-> [i \in 1 .. Len(Get(doc, "nodes", <<>>)) |->
                  LET n == Restrict(doc.nodes[i], NodeKeys)
                  IN IF "attachments" \in DOMAIN n
                     THEN [n EXCEPT !.attachments =
                             [j \in 1 .. Len(n.attachments) |->
                                Restrict(n.attachments[j], {"label", "url"})]]
                     ELSE n],
     edges |-> [i \in 1 .. Len(Get(doc, "edges", <<>>)) |->
                  Restrict(doc.edges[i], {"source", "target", "label", "style"})]]

\* C13 (as claimed): importing a document yields the Graph that importing
\* the same document without its unknown keys yields, and raises an error
\* only if that one does.
C13_UnknownKeysIgnored ==
    [][ \A doc \in Docs \ {Unreadable} :
          import_json(doc) =>
             /\ import_json(Stripped(doc))
             /\ import_raises(doc) => import_raises(Stripped(doc)) ]_vars

----------------------------------------------------------------------------
(* Claims about the inspector's write-back *)

\* the k-th of the pieces the commas cut a text into
Piece(text, k) ==
    LET cuts == {0, Len(text) + 1} \cup { i \in 1 .. Len(text) : text[i] = "," }
    IN SubSeq(text, NthFree(cuts, k) + 1, NthFree(cuts, k + 1) - 1)

\* a text without the whitespace at its two ends
Trim(p) ==
    LET solid == { i \in 1 .. Len(p) : p[i] \notin Whitespace }
    IN IF solid = {} THEN <<>>
       ELSE SubSeq(p, Min(solid), CHOOSE i \in solid : \A j \in solid : j <= i)

\* tags is the list of the trimmed, non-blank pieces of text, each at the
\* place of its first occurrence
TagsAre(tags, text) ==
    LET n == Cardinality({ i \in 1 .. Len(text) : text[i] = "," }) + 1
        firsts == { k \in 1 .. n :
                      /\ Trim(Piece(text, k)) # <<>>
                      /\ \A j \in 1 .. (k - 1) :
                            Trim(Piece(text, j)) # Trim(Piece(text, k)) }
    IN /\ Len(tags) = Cardinality(firsts)
       /\ \A i \in 1 .. Len(tags) : tags[i] = Trim(Piece(text, NthFree(firsts, i)))

----------------------------------------------------------------------------
(* Claims about enrichment *)

\* C15 (as claimed): after enrich_selected on a Node, if an e-mail address
\* was found in its label, notes or attachments, a status of unknown became
\* suspected (any other status stayed) and confidence became the larger of
\* its previous value and 60; confidence is never lower than before; and
\* each found address is exactly once in tags as "email:<address>".
C15_EnrichPromotes ==
    [][ count'.enrichments # count.enrichments =>
          \A it \in selected :
             nodes' = enrich_selected_on(nodes, world, it) =>
                LET found == Range(extract_emails(nodes'[it]))
                    old == nodes[it]
                    new == nodes'[it]
                IN /\ found # {} =>
                        /\ new.status = IF old.status = "unknown"
                                        THEN "suspected" ELSE old.status
                        /\ new.confidence = MaxOf(old.confidence, 60)
                   /\ new.confidence >= old.confidence
                   /\ \A e \in found :
                         Cardinality({ i \in 1 .. Len(new.tags) :
                                          new.tags[i] = T_email \o e }) = 1 ]_vars

----------------------------------------------------------------------------
(* Claims about search *)

\* C16 (as claimed): after every change of the query, with q the trimmed
\* and lowered text of the search box, each Node of the Graph is visible if
\* and only if q is empty or occurs, letter case aside, in its label, in
\* one of its tags, in the label and URL of one of its attachments, or in
\* its notes; so after the query is cleared every Node is visible.
C16_SearchShowsMatches ==
    [][ \A text \in Queries :
          apply_search(text) =>
             \A o \in Range(graph_nodes) :
                (o \notin hidden') <=>
                   \/ Lower(Strip(text)) = <<>>
                   \/ Hit(nodes[o], Lower(Strip(text))) ]_vars

----------------------------------------------------------------------------
(* Claims about the connection gesture and the selection *)

\* C17: a Shift-click on the node the gesture is armed with returns the
\* gesture to Idle and leaves graph.edges and the scene's edge items as they
\* are; and in Idle a Shift-click on any node arms the gesture with that
\* node as source, again without creating an Edge.
C17_SameNodeCancels ==
    [][ \A o \in Oids, input \in LabelInputs :
          edge_click(o, input) =>
             /\ edgeSource = o =>
                   /\ edgeSource' = NoItem
                   /\ graph_edges' = graph_edges
                   /\ scene_edges' = scene_edges
             /\ edgeSource = NoItem =>
                   /\ edgeSource' = o
                   /\ graph_edges' = graph_edges
                   /\ scene_edges' = scene_edges ]_vars

\* C17, its case: the gesture was armed on one node, cancelled on it, and
\* armed again on another: both are selected, the second is the source, and
\* no Edge was created
C17_Witness ==
    /\ count.connects = 0
    /\ count.cancels = 1
    /\ edgeSource # NoItem
    /\ \E a \in scene_items \ {edgeSource} : selected = {a, edgeSource}
    /\ graph_edges = SeedEdges
    /\ Len(scene_edges) = Len(SeedEdges)

\* C18 (as claimed): at most one Node is selected in every reachable state,
\* also while the connection gesture is armed.
C18_AtMostOneSelected == Cardinality(selected) <= 1

\* C20 (as claimed): a label edit of a visual edge to L, confirmed in the
\* dialog, sets to L the label of the model Edge that the visual edge
\* represents (the one with its source, target and label text) in place;
\* graph.edges keeps its length and every other Edge keeps its fields, also
\* when several Edges join the same source and target.
C20_LabelEditInPlace ==
    [][ \A i \in 1 .. Len(scene_edges), input \in LabelInputs :
          (input[2] /\ edge_mouseDoubleClickEvent(i, input)) =>
             LET it == scene_edges[i]
                 represented == { k \in 1 .. Len(graph_edges) :
                     SameTriple(graph_edges[k], nodes[it.src].id,
                                nodes[it.dst].id, it.label) }
             IN \E k \in represented :
                   graph_edges' = [graph_edges EXCEPT ![k].label = input[1]] ]_vars

----------------------------------------------------------------------------
(* Claims about the refresh of the inspector *)

\* the widgets sync_inspector has written when it stands at statement pc
Written(pc) ==
    CASE pc \in Range(Widgets) ->
           { Widgets[j] : j \in { k \in 1 .. Len(Widgets) :
                                    \E i \in k + 1 .. Len(Widgets) : Widgets[i] = pc } }
      [] pc \in {"attach", "unblock", "done"} -> Range(Widgets)
      [] OTHER -> {}

\* C19: while sync_inspector populates the form (from the write of the
\* first field to the write of the last) update_selected_from_ui does not
\* run and no field of any Node changes; the widgets' signals are enabled
\* again only when all six fields are written; and a Node changes only when
\* sync_inspector has returned, by a user operation.
C19_SyncIsQuiet ==
    /\ [](sync.pc \in Range(Widgets) =>
             /\ sync.blocked = Range(Widgets)
             /\ sync.syncing)
    /\ [](~ sync.slots)
    /\ []((Written(sync.pc) # {} /\ sync.blocked # Range(Widgets)) =>
             /\ Written(sync.pc) = Range(Widgets)
             /\ sync.blocked = {})
    /\ [][(sync.pc # "idle") => nodes' = nodes]_vars
    /\ [][(nodes' # nodes) =>
             /\ sync.pc = "idle"
             /\ sync.blocked = {}
             /\ ~ sync.syncing]_vars

\* C19, its case: sync_inspector ran to its end on the selected node, the
\* form shows that node, and a user edit of the name then reached the node
C19_Witness ==
    /\ sync.pc = "idle"
    /\ selected = {1}
    /\ nodes[1].label = <<"m", "@", "b", ".", "i", "o">>
    /\ nodes[1].group = "location"
    /\ nodes[1].tags = <<T_village>>
    /\ form = [sync_inspector(form, nodes, 1) EXCEPT !.name = <<" ", "m", "@", "b", ".", "i", "o">>]

----------------------------------------------------------------------------
(* Claims about the scene as a projection of the model *)

\* the visual edges with the (source id, target id, label) of the model edge e
ItemsOf(e) ==
    { i \in 1 .. Len(scene_edges) :
        SameTriple(e, nodes[scene_edges[i].src].id, nodes[scene_edges[i].dst].id,
                   scene_edges[i].label) }

\* C21 (as claimed): in every reachable state the visual edges and
\* graph.edges correspond one-to-one by (source, target, label): every
\* visual edge has a model Edge with its triple, and every model Edge has
\* exactly one visual edge.
C21_EdgesCorrespond ==
    /\ \A i \in 1 .. Len(scene_edges) :
         \E k \in 1 .. Len(graph_edges) : i \in ItemsOf(graph_edges[k])
    /\ \A k \in 1 .. Len(graph_edges) : Cardinality(ItemsOf(graph_edges[k])) = 1

----------------------------------------------------------------------------
(* Claims about the form as a view of the selected node *)

\* the six fields of a Node that the form shows
FormFields(nd) ==
    [label |-> nd.label, group |-> nd.group, status |-> nd.status,
     confidence |-> nd.confidence, tags |-> nd.tags, notes |-> nd.notes]

\* C22 (as claimed): for every Node of the graph, selecting it (sync_inspector
\* fills the form) and then running update_selected_from_ui with no form
\* field changed leaves its label, group, status, confidence, tags and notes
\* as they were.
C22_WriteBackKeepsFields ==
    \A o \in scene_items :
       FormFields(update_selected_from_ui(sync_inspector(form, nodes, o), nodes, o)[o])
          = FormFields(nodes[o])

=============================================================================
